---- MODULE Spec2Model ----
(***************************************************************************)
(* Model of src/server.ts: the POST /api/analyze handler and the retry     *)
(* loop generateWithRetry, with the PDF parser, the generative model and   *)
(* the database as collaborators whose answers are nondeterministic.       *)
(*                                                                         *)
(* A text (an error message, a response text, a column value) is a         *)
(* sequence of tokens; String.includes is containment of a token.          *)
(* Each request is a logical task; pc[r] is the await it is suspended at.  *)
(***************************************************************************)
EXTENDS Integers, Sequences, FiniteSets, TLC

\* ------------------------------------------------------------------ bounds
NumReqs == 2
\* largest retries generateWithRetry is called with apart from its default
MaxRetries == 2

Reqs == 1..NumReqs

\* ------------------------------------------------------- program constants
DefaultRetries == 5
InitialDelay == 3000
PromptCap == 25000
\* delay is a float in the source; it is kept here in 1/DelayUnit ms so that
\* the repeated multiplication by 1.5 stays exact
DelayUnit == 16

\* ------------------------------------------------------------------- texts
Includes(msg, tok) == \E k \in 1..Len(msg) : msg[k] = tok

MaxCapacityMsg ==
  <<"Gemini", "2.5", "is", "at", "max", "capacity.", "Please", "try", "again", "in", "1", "minute.">>

BadRequestBody == <<"Resume", "and", "JD", "required">>
OverloadedBody == <<"Gemini", "2.5", "is", "overloaded.", "Please", "click", "Scan", "again.">>
FailedBody == <<"Analysis", "failed.", "See", "server", "logs.">>

\* error.message.includes('503') || error.message.includes('overloaded')
isBusy(msg) == Includes(msg, "503") \/ Includes(msg, "overloaded")

\* ------------------------------------------------- collaborators' answers
\* messages of the errors model.generateContent rejects with
UpstreamErrors ==
  { <<"[503", "Service", "Unavailable]", "503">>,
    <<"The", "model", "is", "overloaded">>,
    <<"[429", "Too", "Many", "Requests]", "quota">> }

\* messages of the errors parser.getText rejects with
ExtractionErrors == { <<"Invalid", "PDF", "structure">> }

\* req.file present or not, req.body.jobDescription, req.body.jobTitle
JobDescriptions == { <<>>, <<"Backend", "engineer">> }
JobTitles == { <<>>, <<"Engineer">> }

\* lengths of the text parser.getText resolves with
ResumeLengths == { 0, PromptCap + 1 }

Min(a, b) == IF a <= b THEN a ELSE b

\* ----------------------------------------------------- JSON response texts
\* A JSON value the model may answer with, by name; JsonDocs gives what
\* JSON.parse makes of it. score: k is "int" (n its value), "frac" (a number
\* that is no integer), "str" (a JSON string) or "absent"; missingKeywords:
\* k is "seq" (v its elements), "str" or "absent"; advice: present or not.
IntScore(n) == [k |-> "int", n |-> n]
NoScore == [k |-> "absent", n |-> 0]
Keywords(v) == [k |-> "seq", v |-> v]

JsonDocs ==
  [ good |-> [score |-> IntScore(85), missingKeywords |-> Keywords(<<"sql", "aws">>), advice |-> TRUE],
    noScore |-> [score |-> NoScore, missingKeywords |-> Keywords(<<"sql">>), advice |-> TRUE],
    noAdvice |-> [score |-> IntScore(40), missingKeywords |-> Keywords(<<>>), advice |-> FALSE],
    noKeywords |-> [score |-> IntScore(70), missingKeywords |-> [k |-> "absent", v |-> <<>>], advice |-> TRUE],
    kwString |-> [score |-> IntScore(70), missingKeywords |-> [k |-> "str", v |-> <<"sql">>], advice |-> TRUE],
    score150 |-> [score |-> IntScore(150), missingKeywords |-> Keywords(<<>>), advice |-> TRUE],
    scoreFrac |-> [score |-> [k |-> "frac", n |-> 85], missingKeywords |-> Keywords(<<>>), advice |-> TRUE] ]

JsonNames == DOMAIN JsonDocs

\* the two code-fence markers the handler strips, as tokens
FenceJson == "[fence-json]"
Fence == "[fence]"

\* texts result.response.text() may give: bare JSON, fenced JSON, prose
ResponseTexts ==
  { <<name>> : name \in JsonNames }
    \cup { <<FenceJson, "good", Fence>>,
           <<Fence, "score150", Fence>>,
           <<"Sorry,", "I", "cannot">>,
           <<"Error", "503">> }

\* responseText with every json-fence marker, then every fence marker, removed
RECURSIVE RemoveAll(_, _)
RemoveAll(text, tok) ==
  IF text = <<>> THEN <<>>
  ELSE IF Head(text) = tok THEN RemoveAll(Tail(text), tok)
  ELSE <<Head(text)>> \o RemoveAll(Tail(text), tok)

\* variant: only the plain fence marker is stripped
cleanJsonPlainOnly(responseText) == RemoveAll(responseText, Fence)

cleanJson(responseText) == RemoveAll(RemoveAll(responseText, FenceJson), Fence)

\* JSON.parse succeeds on exactly one JSON value (white space aside)
ParseOk(text) == Len(text) = 1 /\ text[1] \in JsonNames
JSONparse(text) == JsonDocs[text[1]]

\* messages of the SyntaxError JSON.parse throws: the runtime either quotes
\* the offending text or names only a position
ParseErrors(text) ==
  { <<"Unexpected", "token", "in", "JSON", "at", "position">>,
    <<"Unexpected", "token,">> \o text \o <<"is", "not", "valid", "JSON">> }

\* analysis.missingKeywords.join is defined for an array only
JoinOk(analysis) == analysis.missingKeywords.k = "seq"
JoinError(analysis) ==
  IF analysis.missingKeywords.k = "absent"
  THEN <<"Cannot", "read", "properties", "of", "undefined", "(reading", "join)">>
  ELSE <<"analysis.missingKeywords.join", "is", "not", "a", "function">>

RECURSIVE join(_, _)
join(v, sep) ==
  IF v = <<>> THEN <<>>
  ELSE IF Len(v) = 1 THEN v
  ELSE <<Head(v), sep>> \o join(Tail(v), sep)

\* match_score INTEGER: NULL (undefined) and integers are stored, anything
\* else is refused by the database
ColumnAccepts(score) == score.k \in {"absent", "int"}
ColumnError == <<"invalid", "input", "syntax", "for", "type", "integer">>
StorageErrors == { <<"Connection", "terminated", "unexpectedly">> }

\* ------------------------------------------------------------------- state
VARIABLES
  pc,              \* per request: the await the handler is suspended at
  file,            \* req.file is present
  jobDescription,  \* req.body.jobDescription
  jobTitle,        \* req.body.jobTitle
  resumeText,      \* length of textResult.text, 0 before extraction
  prompt,          \* the prompt handed to generateWithRetry
  retries,         \* generateWithRetry's parameter retries
  i,               \* generateWithRetry's loop index
  delay,           \* generateWithRetry's delay, in 1/DelayUnit ms
  calls,           \* model.generateContent calls issued so far
  waits,           \* setTimeout waits started so far
  busyFails,       \* calls that were rejected with a busy error so far
  text,            \* responseText
  err,             \* message of the error the handler caught
  errAt,           \* where that error was thrown
  status,          \* HTTP status sent, 0 while no response was sent
  body,            \* HTTP body sent
  saved,           \* id the insert returned to this request, 0 if none
  records,         \* rows of table analyses, in insertion order
  nextId           \* next value of the SERIAL column id

vars ==
  <<pc, file, jobDescription, jobTitle, resumeText, prompt, retries, i, delay, calls, waits,
    busyFails, text, err, errAt, status, body, saved, records, nextId>>

NoData == [score |-> NoScore, missingKeywords |-> [k |-> "absent", v |-> <<>>], advice |-> FALSE]
NoBody == [error |-> <<>>, success |-> FALSE, id |-> 0, hasData |-> FALSE, data |-> NoData]
NoPrompt == [resume |-> 0, jd |-> <<>>]

\* the state before any request, whatever generateWithRetry's retries is
InitBase ==
  /\ pc = [r \in Reqs |-> "new"]
  /\ file = [r \in Reqs |-> FALSE]
  /\ jobDescription = [r \in Reqs |-> <<>>]
  /\ jobTitle = [r \in Reqs |-> <<>>]
  /\ resumeText = [r \in Reqs |-> 0]
  /\ prompt = [r \in Reqs |-> NoPrompt]
  /\ i = [r \in Reqs |-> 0]
  /\ delay = [r \in Reqs |-> 0]
  /\ calls = [r \in Reqs |-> 0]
  /\ waits = [r \in Reqs |-> 0]
  /\ busyFails = [r \in Reqs |-> 0]
  /\ text = [r \in Reqs |-> <<>>]
  /\ err = [r \in Reqs |-> <<>>]
  /\ errAt = [r \in Reqs |-> "none"]
  /\ status = [r \in Reqs |-> 0]
  /\ body = [r \in Reqs |-> NoBody]
  /\ saved = [r \in Reqs |-> 0]
  /\ records = <<>>
  /\ nextId = 1

\* the handler calls generateWithRetry(prompt): retries takes its default
Init == InitBase /\ retries = DefaultRetries

\* ---------------------------------------------------------------- responses
\* variant: the raw message is sent to the caller
CatchBodyRaw(msg) == msg

\* variant: an error that is not a 503 is logged and not answered
CatchStatusSwallow(msg) == IF Includes(msg, "503") THEN 503 ELSE 0

\* the handler's catch block: 503 iff the message includes "503"
CatchStatus(msg) == IF Includes(msg, "503") THEN 503 ELSE 500
CatchBody(msg) == IF Includes(msg, "503") THEN OverloadedBody ELSE FailedBody

\* an error with message msg, thrown at site at, reaches the catch block
Catch(r, msg, at) ==
  /\ err' = [err EXCEPT ![r] = msg]
  /\ errAt' = [errAt EXCEPT ![r] = at]
  /\ status' = [status EXCEPT ![r] = CatchStatus(msg)]
  /\ body' = [body EXCEPT ![r] = [NoBody EXCEPT !.error = CatchBody(msg)]]
  /\ pc' = [pc EXCEPT ![r] = "done"]

\* ------------------------------------------------------------------ actions
\* variant: the two checks joined by && instead of ||
InputMissingBoth(f, jd) == ~f /\ jd = <<>>

\* !file || !jobDescription
InputMissing(f, jd) == ~f \/ jd = <<>>

\* the request arrives; requests are numbered in their order of arrival
Receive(r) ==
  /\ pc[r] = "new"
  /\ \A q \in Reqs : q < r => pc[q] # "new"
  /\ \E f \in BOOLEAN, jd \in JobDescriptions, jt \in JobTitles :
       /\ file' = [file EXCEPT ![r] = f]
       /\ jobDescription' = [jobDescription EXCEPT ![r] = jd]
       /\ jobTitle' = [jobTitle EXCEPT ![r] = jt]
       /\ IF InputMissing(f, jd)
          THEN /\ status' = [status EXCEPT ![r] = 400]
               /\ body' = [body EXCEPT ![r] = [NoBody EXCEPT !.error = BadRequestBody]]
               /\ pc' = [pc EXCEPT ![r] = "done"]
          ELSE /\ pc' = [pc EXCEPT ![r] = "extract"]
               /\ UNCHANGED <<status, body>>
  /\ UNCHANGED <<resumeText, prompt, retries, i, delay, calls, waits, busyFails, text, err,
                 errAt, saved, records, nextId>>

\* variant: the loop condition is i <= retries
LoopContinuesInclusive(idx, n) == idx <= n

\* variant: the loop index is not advanced
NextIndexStuck(idx) == idx

\* the for loop's condition i < retries and its step i++
LoopContinues(idx, n) == idx < n
NextIndex(idx) == idx + 1

\* variant: the resume text is embedded without truncation
BuildPromptWhole(resumeLen, jd) == [resume |-> resumeLen, jd |-> jd]

\* the prompt template around resumeText.substring(0, 25000) and jobDescription
BuildPrompt(resumeLen, jd) == [resume |-> Min(resumeLen, PromptCap), jd |-> jd]

\* parser.getText() resolves; the prompt is built and generateWithRetry
\* starts: it issues its first call, or throws at once when the loop is empty
ExtractOk(r) ==
  /\ pc[r] = "extract"
  /\ \E len \in ResumeLengths :
       /\ resumeText' = [resumeText EXCEPT ![r] = len]
       /\ prompt' = [prompt EXCEPT ![r] = BuildPrompt(len, jobDescription[r])]
  /\ i' = [i EXCEPT ![r] = 0]
  /\ delay' = [delay EXCEPT ![r] = InitialDelay * DelayUnit]
  /\ IF LoopContinues(0, retries)
     THEN /\ calls' = [calls EXCEPT ![r] = @ + 1]
          /\ pc' = [pc EXCEPT ![r] = "call"]
          /\ UNCHANGED <<err, errAt, status, body>>
     ELSE /\ Catch(r, MaxCapacityMsg, "generate")
          /\ UNCHANGED calls
  /\ UNCHANGED <<file, jobDescription, jobTitle, retries, waits, busyFails, text,
                 saved, records, nextId>>

\* parser.getText() rejects
ExtractFail(r) ==
  /\ pc[r] = "extract"
  /\ \E msg \in ExtractionErrors : Catch(r, msg, "extract")
  /\ UNCHANGED <<file, jobDescription, jobTitle, resumeText, prompt, retries, i, delay, calls, waits,
                 busyFails, text, saved, records, nextId>>

\* variant: gives up one attempt early
ShouldRetryEarly(msg, idx, n) == isBusy(msg) /\ idx < n - 2

\* variant: every error is retried, busy or not
ShouldRetryAnyError(msg, idx, n) == idx < n - 1

\* variant: a busy error is retried whatever the attempt
ShouldRetryNoBound(msg, idx, n) == isBusy(msg)

\* isBusy && i < retries - 1: wait and try again; otherwise throw
ShouldRetry(msg, idx, n) == isBusy(msg) /\ idx < n - 1

\* throw error: the error of the attempt is rethrown as it is
Rethrown(msg) == msg

\* variant: the delay does not grow
GrowDelayFlat(d) == d

\* delay *= 1.5
GrowDelay(d) == (d * 3) \div 2

\* model.generateContent rejects: back off, or give up with the error
UpstreamError(r) ==
  /\ pc[r] = "call"
  /\ \E msg \in UpstreamErrors :
       /\ busyFails' = [busyFails EXCEPT ![r] = IF isBusy(msg) THEN @ + 1 ELSE @]
       /\ IF ShouldRetry(msg, i[r], retries)
          THEN /\ waits' = [waits EXCEPT ![r] = @ + 1]
               /\ pc' = [pc EXCEPT ![r] = "wait"]
               /\ UNCHANGED <<err, errAt, status, body>>
          ELSE /\ Catch(r, Rethrown(msg), "generate")
               /\ UNCHANGED waits
  /\ UNCHANGED <<file, jobDescription, jobTitle, resumeText, prompt, retries, i, delay, calls, text,
                 saved, records, nextId>>

\* variant: one delay shared by all requests
GrowSharedDelay(dl, r) == [q \in Reqs |-> GrowDelay(dl[r])]

\* delay is a parameter of the call: each request grows its own
GrowOwnDelay(dl, r) == [dl EXCEPT ![r] = GrowDelay(@)]

\* the backoff timer fires: the delay grows, the loop steps and either
\* issues the next call or falls out of the loop to the final throw
TimerFires(r) ==
  /\ pc[r] = "wait"
  /\ delay' = GrowOwnDelay(delay, r)
  /\ i' = [i EXCEPT ![r] = NextIndex(@)]
  /\ IF LoopContinues(NextIndex(i[r]), retries)
     THEN /\ calls' = [calls EXCEPT ![r] = @ + 1]
          /\ pc' = [pc EXCEPT ![r] = "call"]
          /\ UNCHANGED <<err, errAt, status, body>>
     ELSE /\ Catch(r, MaxCapacityMsg, "generate")
          /\ UNCHANGED calls
  /\ UNCHANGED <<file, jobDescription, jobTitle, resumeText, prompt, retries, waits, busyFails, text,
                 saved, records, nextId>>

\* the analysis the handler holds once responseText parsed
Analysis(r) == JSONparse(cleanJson(text[r]))

\* model.generateContent resolves: generateWithRetry returns, the text is
\* trimmed (a text of tokens carries no outer white space),
\* cleaned and parsed, the insert's parameters are computed and the insert
\* is sent; an exception on the way goes to the catch block
UpstreamSuccess(r) ==
  /\ pc[r] = "call"
  /\ \E t \in ResponseTexts :
       /\ text' = [text EXCEPT ![r] = t]
       /\ IF ~ParseOk(cleanJson(t))
          THEN \E msg \in ParseErrors(cleanJson(t)) : Catch(r, msg, "parse")
          ELSE IF ~JoinOk(JSONparse(cleanJson(t)))
          THEN Catch(r, JoinError(JSONparse(cleanJson(t))), "join")
          ELSE /\ pc' = [pc EXCEPT ![r] = "insert"]
               /\ UNCHANGED <<err, errAt, status, body>>
  /\ UNCHANGED <<file, jobDescription, jobTitle, resumeText, prompt, retries, i, delay, calls, waits,
                 busyFails, saved, records, nextId>>

\* [jobTitle || "Unknown Role", analysis.score, analysis.missingKeywords.join]
Row(id, jt, analysis) ==
  [id |-> id,
   job_title |-> IF jt = <<>> THEN <<"Unknown", "Role">> ELSE jt,
   match_score |-> analysis.score,
   missing_skills |-> join(analysis.missingKeywords.v, ", ")]

\* variant: the row is not stored
InsertRowLost(rows, row) == rows

\* INSERT INTO analyses ... RETURNING id
InsertRow(rows, row) == Append(rows, row)

\* the database performs the insert; its answer is on the way to the handler.
\* A query is taken to store its row exactly when it resolves.
StorageInsertOk(r) ==
  /\ pc[r] = "insert"
  /\ ColumnAccepts(Analysis(r).score)
  /\ records' = InsertRow(records, Row(nextId, jobTitle[r], Analysis(r)))
  /\ saved' = [saved EXCEPT ![r] = nextId]
  /\ nextId' = nextId + 1
  /\ pc' = [pc EXCEPT ![r] = "resume"]
  /\ UNCHANGED <<file, jobDescription, jobTitle, resumeText, prompt, retries, i, delay, calls, waits,
                 busyFails, text, err, errAt, status, body>>

\* the database refuses the insert, or the query fails on the way to it
StorageError(r) ==
  /\ pc[r] = "insert"
  /\ \E msg \in StorageErrors \cup
                (IF ColumnAccepts(Analysis(r).score) THEN {} ELSE {ColumnError}) :
       Catch(r, msg, "insert")
  /\ UNCHANGED <<file, jobDescription, jobTitle, resumeText, prompt, retries, i, delay, calls, waits,
                 busyFails, text, saved, records, nextId>>

\* variant: the id of the newest row instead of the returned one
ResponseIdLatest(savedId, rows) == rows[Len(rows)].id

\* saved.rows[0].id: the id the request's own insert returned
ResponseId(savedId, rows) == savedId

\* res.json({ success: true, id: saved.rows[0].id, data: analysis })
Respond(r) ==
  /\ pc[r] = "resume"
  /\ status' = [status EXCEPT ![r] = 200]
  /\ body' = [body EXCEPT ![r] =
       [error |-> <<>>, success |-> TRUE, id |-> ResponseId(saved[r], records), hasData |-> TRUE,
        data |-> Analysis(r)]]
  /\ pc' = [pc EXCEPT ![r] = "done"]
  /\ UNCHANGED <<file, jobDescription, jobTitle, resumeText, prompt, retries, i, delay, calls, waits,
                 busyFails, text, err, errAt, saved, records, nextId>>

Next ==
  \E r \in Reqs :
    \/ Receive(r)
    \/ ExtractOk(r)
    \/ ExtractFail(r)
    \/ UpstreamError(r)
    \/ TimerFires(r)
    \/ UpstreamSuccess(r)
    \/ StorageInsertOk(r)
    \/ StorageError(r)
    \/ Respond(r)

Spec == Init /\ [][Next]_vars

TypeOK ==
  /\ pc \in [Reqs -> {"new", "extract", "call", "wait", "insert", "resume", "done"}]
  /\ status \in [Reqs -> {0, 200, 400, 500, 503}]
  /\ \A r \in Reqs : calls[r] \in Nat /\ waits[r] \in Nat /\ i[r] \in Nat

\* ================================================================== claims
\* generateWithRetry returned a result to the handler
Returned(r) ==
  /\ calls[r] >= 1
  /\ \/ pc[r] \in {"insert", "resume"}
     \/ pc[r] = "done" /\ errAt[r] \in {"none", "parse", "join", "insert"}

\* generateWithRetry threw
Threw(r) == pc[r] = "done" /\ errAt[r] = "generate"

\* every call of the request was rejected with a busy error, and it gave up
Exhausted(r) == Threw(r) /\ calls[r] >= 1 /\ busyFails[r] = calls[r]

\* C1: when every upstream call of a request fails with a busy error,
\* generateWithRetry makes exactly retries calls and then fails with the
\* max-capacity message, never with the raw error of the last attempt.
C1_ExhaustedThrowsMaxCapacity ==
  \A r \in Reqs : Exhausted(r) => calls[r] = retries /\ err[r] = MaxCapacityMsg

\* C2: busy failures on attempts 1..N-1 and a success on attempt N
\* (N <= retries) make generateWithRetry return after exactly N calls; it
\* never gives up on a busy error before attempt number retries.
C2_SuccessOnAttemptN ==
  \A r \in Reqs :
    /\ Returned(r) => calls[r] = busyFails[r] + 1 /\ calls[r] <= retries
    /\ Threw(r) /\ isBusy(err[r]) => busyFails[r] = retries
    /\ pc[r] \in {"call", "wait"} => busyFails[r] < retries

C2_Witness ==
  \E r \in Reqs : Returned(r) /\ calls[r] = retries /\ busyFails[r] = retries - 1

\* C3: an error that is not busy ends the request at once: the failed call
\* is the last one and no wait is started after it; on attempt 1 that is 1
\* call and 0 waits.
C3_FatalFailsImmediately ==
  \A r \in Reqs :
    errAt[r] = "generate" /\ ~isBusy(err[r]) =>
      /\ pc[r] = "done" /\ status[r] # 0
      /\ calls[r] = busyFails[r] + 1
      /\ waits[r] = busyFails[r]
      /\ err[r] \in UpstreamErrors

C3_Witness ==
  \E r \in Reqs :
    /\ errAt[r] = "generate" /\ ~isBusy(err[r]) /\ calls[r] = 1 /\ waits[r] = 0
    /\ \E q \in Reqs : errAt[q] = "generate" /\ ~isBusy(err[q]) /\ calls[q] = 3

\* C4: a request never has more than retries upstream calls, and once
\* generateWithRetry returned or threw, or the response was sent, no further
\* call or wait of that request happens.
C4_BoundedCallsNoOrphan ==
  [][\A r \in Reqs :
       /\ calls'[r] <= retries
       /\ (Returned(r) \/ pc[r] = "done") => calls'[r] = calls[r] /\ waits'[r] = waits[r]]_vars

C4_Witness ==
  \E r \in Reqs :
    /\ pc[r] = "done" /\ calls[r] = retries
    /\ \E q \in Reqs : q # r /\ pc[q] = "wait" /\ waits[q] >= 1

\* C5: the number of records equals the number of requests answered 200 in
\* every state, and no failed request leaves a record.
C5_RecordsEqualSuccesses ==
  Len(records) = Cardinality({r \in Reqs : status[r] = 200})

\* a request holds a record: its insert completed
HasRecord(r) == saved[r] # 0

\* C5 (amended): the records are those of the requests answered 200 and of
\* the requests whose insert completed and whose 200 response is about to be
\* sent; each of these has exactly one record, a failed request has none.
C5_RecordsOfSuccessesOnly ==
  /\ Len(records) = Cardinality({r \in Reqs : status[r] = 200 \/ pc[r] = "resume"})
  /\ \A r \in Reqs :
       /\ HasRecord(r) <=> (status[r] = 200 \/ pc[r] = "resume")
       /\ HasRecord(r) => Cardinality({k \in 1..Len(records) : records[k].id = saved[r]}) = 1
       /\ status[r] \in {400, 500, 503} => ~HasRecord(r)
       /\ \A q \in Reqs : q # r /\ HasRecord(r) => saved[q] # saved[r]

C5_Witness ==
  \E r \in Reqs :
    /\ status[r] = 200
    /\ \E q \in Reqs : status[q] = 500 /\ errAt[q] = "insert"
    /\ Len(records) = 1

\* C6: a request whose retries are exhausted by busy errors is answered
\* with 503 and the overloaded body, whichever busy message the upstream
\* used.
C6_ExhaustedAnswers503 ==
  \A r \in Reqs : Exhausted(r) => status[r] = 503 /\ body[r].error = OverloadedBody

\* C7: a request without the document, or without the job description, is
\* answered with 400, and neither extraction, nor an upstream call, nor a
\* storage write happens for it.
C7_MissingInputIs400 ==
  \A r \in Reqs :
    pc[r] # "new" /\ (~file[r] \/ jobDescription[r] = <<>>) =>
      /\ pc[r] = "done" /\ status[r] = 400 /\ body[r].error = BadRequestBody
      /\ prompt[r] = NoPrompt /\ errAt[r] = "none"
      /\ calls[r] = 0 /\ waits[r] = 0
      /\ ~HasRecord(r)

C7_Witness ==
  \E r \in Reqs :
    /\ status[r] = 400 /\ ~file[r] /\ jobDescription[r] # <<>>
    /\ \E q \in Reqs : status[q] = 400 /\ file[q] /\ jobDescription[q] = <<>>

\* C8: a response text that is no valid JSON ends the request with 500,
\* without a further upstream call and without a storage write, whatever the
\* text says.
C8_MalformedTextIs500 ==
  \A r \in Reqs :
    errAt[r] = "parse" =>
      pc[r] = "done" /\ status[r] = 500 /\ ~HasRecord(r) /\ calls[r] = busyFails[r] + 1

\* a required field is absent, or missingKeywords is no sequence
Malformed(analysis) ==
  \/ analysis.score.k = "absent"
  \/ analysis.missingKeywords.k # "seq"
  \/ ~analysis.advice

\* C9: a parsed response without score, missingKeywords or advice, or with
\* a missingKeywords that is no sequence, is rejected: no record, no 200.
C9_MalformedResultRejected ==
  \A r \in Reqs :
    Returned(r) /\ ParseOk(cleanJson(text[r])) /\ Malformed(Analysis(r)) =>
      ~HasRecord(r) /\ status[r] # 200

ScoreInRange(score) == score.k = "int" /\ 0 <= score.n /\ score.n <= 100

\* C10: every score that is persisted or returned in a 200 response is an
\* integer in 0..100.
C10_ScoreInRange ==
  /\ \A k \in 1..Len(records) : ScoreInRange(records[k].match_score)
  /\ \A r \in Reqs : status[r] = 200 => ScoreInRange(body[r].data.score)

\* the body the handler sends with an error status
ErrorBodyOf(st) ==
  IF st = 400 THEN BadRequestBody ELSE IF st = 503 THEN OverloadedBody ELSE FailedBody

\* C11: the body of an error response is one of three constant messages,
\* fixed by the status alone: requests that fail with the same status have
\* equal bodies whatever the raw error messages were.
C11_ErrorBodiesConstant ==
  \A r \in Reqs :
    status[r] \in {400, 500, 503} =>
      /\ body[r] = [NoBody EXCEPT !.error = ErrorBodyOf(status[r])]
      /\ \A q \in Reqs : status[q] = status[r] => body[q] = body[r]

C11_Witness ==
  \E r \in Reqs, q \in Reqs :
    /\ status[r] = 500 /\ status[q] = 500
    /\ err[r] # <<>> /\ err[q] # <<>> /\ err[r] # err[q]

\* each collaborator call eventually resolves or rejects, each timer fires,
\* and a resumed handler runs on
Fairness ==
  \A r \in Reqs :
    /\ WF_vars(ExtractOk(r) \/ ExtractFail(r))
    /\ WF_vars(UpstreamError(r) \/ UpstreamSuccess(r))
    /\ WF_vars(TimerFires(r))
    /\ WF_vars(StorageInsertOk(r) \/ StorageError(r))
    /\ WF_vars(Respond(r))

FairSpec == Spec /\ Fairness

\* C12: every request that arrived is eventually answered (no request
\* stays pending for ever), with a status among 200, 400, 500 and 503, and a
\* response once sent is never replaced.
C12_AnsweredExactlyOnce ==
  /\ []<>(\A r \in Reqs : pc[r] \in {"new", "done"})
  /\ [][\A r \in Reqs :
          /\ pc'[r] = "done" => status'[r] \in {200, 400, 500, 503}
          /\ status[r] # 0 => status'[r] = status[r] /\ body'[r] = body[r]
          /\ status'[r] # 0 <=> pc'[r] = "done"]_vars

C12_Witness ==
  \E r \in Reqs :
    /\ status[r] = 500 /\ errAt[r] = "generate" /\ calls[r] = retries
    /\ \E q \in Reqs : status[q] = 200

\* the two fenced forms of a JSON text
Fenced(name) == { <<FenceJson, name, Fence>>, <<Fence, name, Fence>> }

\* C13: a valid JSON text in code fences parses to the same analysis as the
\* text without fences.
C13_FencedParsesAlike ==
  \A r \in Reqs : \A name \in JsonNames :
    text[r] \in Fenced(name) =>
      /\ errAt[r] # "parse"
      /\ Analysis(r) = JSONparse(<<name>>)
      /\ status[r] = 200 => body[r].data = JSONparse(<<name>>)
      /\ \A q \in Reqs :
           text[q] = <<name>> =>
             /\ errAt[q] # "parse"
             /\ status[r] = 200 /\ status[q] = 200 => body[r].data = body[q].data

C13_Witness ==
  \E r \in Reqs, q \in Reqs :
    /\ text[r] = <<Fence, "score150", Fence>> /\ text[q] = <<"score150">>
    /\ status[r] = 200 /\ status[q] = 200

\* the prompt of the request was built
PromptBuilt(r) == pc[r] \notin {"new", "extract"} /\ status[r] # 400 /\ errAt[r] # "extract"

\* C14: the prompt embeds the first min(length, 25000) characters of the
\* resume text and nothing more, and the whole job description unchanged.
C14_PromptTruncatesResumeOnly ==
  \A r \in Reqs :
    PromptBuilt(r) =>
      /\ prompt[r].jd = jobDescription[r]
      /\ prompt[r].resume <= PromptCap
      /\ resumeText[r] <= PromptCap => prompt[r].resume = resumeText[r]
      /\ resumeText[r] > PromptCap => prompt[r].resume = PromptCap

C14_Witness ==
  \E r \in Reqs, q \in Reqs :
    /\ PromptBuilt(r) /\ resumeText[r] > PromptCap /\ prompt[r].resume = PromptCap
    /\ PromptBuilt(q) /\ resumeText[q] = 0 /\ prompt[q].jd # <<>>

\* C15: the k-th backoff wait of a request lasts InitialDelay * 1.5^(k-1) ms
\* (3000 ms the first), the delay never shrinks and is never capped.
C15_BackoffGrowsByHalf ==
  [][\A r \in Reqs :
       /\ pc'[r] = "wait" =>
            /\ waits'[r] >= 1
            /\ delay'[r] * 2^(waits'[r] - 1) = InitialDelay * DelayUnit * 3^(waits'[r] - 1)
       /\ pc[r] \in {"call", "wait"} => delay'[r] >= delay[r]]_vars

C15_Witness ==
  \E r \in Reqs : pc[r] = "wait" /\ waits[r] = retries - 1 /\ delay[r] > 3 * InitialDelay * DelayUnit

\* the state of one request
Local(r) ==
  <<pc[r], file[r], jobDescription[r], jobTitle[r], resumeText[r], prompt[r], i[r], delay[r],
    calls[r], waits[r], busyFails[r], text[r], err[r], errAt[r], status[r], body[r].error,
    body[r].data>>

\* C16: a step of one request leaves the attempt index, delay, counters and
\* outcome of every other request as they were, under every interleaving.
C16_RequestsIndependent ==
  [][\E r \in Reqs : \A q \in Reqs \ {r} : Local(q)' = Local(q)]_vars

C16_Witness ==
  \E r \in Reqs, q \in Reqs :
    /\ pc[r] = "wait" /\ pc[q] = "wait"
    /\ waits[r] = 1 /\ waits[q] = 3 /\ delay[r] < delay[q]

\* C17: a document that cannot be read, or that has no extractable text,
\* ends the request with 500, without an upstream call or a storage write.
C17_NoTextIsExtractionFailure ==
  \A r \in Reqs :
    errAt[r] = "extract" \/ (PromptBuilt(r) /\ resumeText[r] = 0) =>
      pc[r] = "done" /\ status[r] = 500 /\ calls[r] = 0 /\ ~HasRecord(r)

\* C18: a 200 response follows the request's own insert: its id is the id
\* of the row that insert stored, and its data is the analysis parsed from
\* the request's own response text.
C18_ResponseCarriesOwnInsert ==
  \A r \in Reqs :
    status[r] = 200 =>
      /\ HasRecord(r) /\ body[r].id = saved[r]
      /\ \E k \in 1..Len(records) :
           records[k] = Row(body[r].id, jobTitle[r], Analysis(r))
      /\ body[r].hasData /\ body[r].data = Analysis(r)
      /\ \A q \in Reqs : q # r /\ status[q] = 200 => body[q].id # body[r].id

C18_Witness ==
  \E r \in Reqs, q \in Reqs :
    /\ status[r] = 200 /\ pc[q] = "resume" /\ saved[q] < saved[r]
    /\ text[q] # text[r]

\* C19: generateWithRetry ends after c >= 1 calls with exactly c - 1 waits:
\* a wait lies only between a busy failure and the next attempt.
C19_WaitsBetweenCallsOnly ==
  \A r \in Reqs :
    /\ (Returned(r) \/ Threw(r)) /\ calls[r] >= 1 => waits[r] = calls[r] - 1
    /\ pc[r] = "call" => waits[r] = calls[r] - 1
    /\ pc[r] = "wait" => waits[r] = calls[r] /\ calls[r] < retries

C19_Witness ==
  \E r \in Reqs :
    /\ Exhausted(r) /\ calls[r] = retries /\ waits[r] = retries - 1
    /\ \E q \in Reqs : Returned(q) /\ calls[q] = 2 /\ waits[q] = 1

\* generateWithRetry called with any small retries, also none or negative
InitRetries == InitBase /\ retries \in -1..MaxRetries

RetriesSpec == InitRetries /\ [][Next]_vars

\* generateWithRetry came to an end, by return or by throw
Ended(r) ==
  \/ Threw(r)
  \/ pc[r] \in {"insert", "resume"}
  \/ errAt[r] \in {"parse", "join", "insert"}
  \/ status[r] = 200

\* C20: with retries <= 0 generateWithRetry makes no call and no wait and
\* throws the max-capacity error; with retries >= 1 it never ends without
\* a call.
C20_EmptyLoopThrowsMaxCapacity ==
  \A r \in Reqs :
    /\ retries <= 0 /\ PromptBuilt(r) =>
         /\ Threw(r) /\ err[r] = MaxCapacityMsg
         /\ calls[r] = 0 /\ waits[r] = 0
    /\ retries >= 1 /\ Ended(r) => calls[r] >= 1

C20_Witness ==
  \E r \in Reqs : retries <= 0 /\ Threw(r) /\ err[r] = MaxCapacityMsg /\ calls[r] = 0

====
